---- MODULE Spec2Model ----
(***************************************************************************)
(* A model of the pgfplots crate root (src/lib.rs): the Picture node with  *)
(* its key list and rendering, the standalone document assembler, and the  *)
(* show / show_with compilation pipeline over the fixed scratch directory. *)
(* Text is a sequence of tokens: every literal piece written by one        *)
(* write!/writeln! fragment is a token, a key's text is a token, and the   *)
(* newline and the tab are tokens of their own.                            *)
(***************************************************************************)
EXTENDS Integers, Sequences, FiniteSets, TLC

VARIABLES
    picture,   \* the Picture under construction: [keys, axes]
    added,     \* history: same shape as picture, every key ever passed to add_key
    calls,     \* number of builder calls made so far
    fs,        \* the scratch path <temp>/output: [exists, files]
    pc,        \* per thread: position inside show_with / show
    strategy,  \* per thread: the Compiler variant of the current call
    run,       \* per thread: number of the compilation it is running
    runs,      \* number of compilations started so far
    result,    \* per thread: what the last call returned
    log,       \* per thread: history of the steps begun and ended in this call
    exit,      \* per thread: exit status reported by the engine subprocess
    atFail,    \* per thread: the scratch path as it was when a step failed
    before     \* per thread: the scratch path as it was when the call began

vars == <<picture, added, calls, fs, pc, strategy, run, runs, result, log, exit,
          atFail, before>>

sceneVars == <<picture, added, calls>>

pipeVars == <<fs, pc, strategy, run, runs, result, log, exit, atFail, before>>

\* ------------------------------------------------------------------------
\* Bounds
\* ------------------------------------------------------------------------

\* Number of builder calls (add_key, push) explored on one picture.
MaxCalls == 5

\* Number of compilations started in one behaviour.
MaxRuns == 2

\* ------------------------------------------------------------------------
\* Keys
\* ------------------------------------------------------------------------

Custom(text) == [kind |-> "Custom", text |-> text]

Typed(kind, text) == [kind |-> kind, text |-> text]

\* PictureKey has the single variant Custom(String).
PictureKeys == {Custom("baseline"), Custom("scale=2")}

\* AxisKey and PlotKey: the fallback variant and two typed option families.
AxisKeys == {Custom("axis lines=middle"),
             Typed("XMode", "xmode=log"), Typed("XMode", "xmode=normal"),
             Typed("YMode", "ymode=log")}

PlotKeys == {Custom("fill=gray!20"),
             Typed("Type2D", "ybar"), Typed("Type2D", "sharp plot"),
             Typed("XError", "x explicit")}

\* impl Display for PictureKey: Custom(key) is written verbatim.
PictureKey_fmt(key) == key.text

\* Display of an AxisKey / PlotKey: one option text per key.
Key_fmt(key) == key.text

\* ------------------------------------------------------------------------
\* add_key
\* ------------------------------------------------------------------------

\* A faulty add_key that drops an earlier key equal to the new one.
Picture_add_key_dedup(keys, key) ==
    Append(SelectSeq(keys, LAMBDA k : k # key), key)

\* Picture::add_key: the match has the single arm Custom(_) => (), then push.
Picture_add_key(keys, key) == Append(keys, key)

\* A faulty add_key that never evicts.
Node_add_key_keep(keys, key) == Append(keys, key)

\* Axis::add_key and Plot2D::add_key: every key of the new key's discriminant
\* is removed first, unless the new key is the fallback variant; then push.
Node_add_key(keys, key) ==
    IF key.kind = "Custom"
    THEN Append(keys, key)
    ELSE Append(SelectSeq(keys, LAMBDA k : k.kind # key.kind), key)

\* ------------------------------------------------------------------------
\* Rendering
\* ------------------------------------------------------------------------

NL == "\n"

TAB == "\t"

RECURSIVE Flatten(_)
Flatten(seqs) ==
    IF seqs = <<>> THEN <<>> ELSE Head(seqs) \o Flatten(Tail(seqs))

\* writeln!(f, "\t{key},") for each key.
KeyLines(texts) ==
    Flatten([i \in 1..Len(texts) |-> <<TAB, texts[i], ",", NL>>])

\* The Display text of each key of a Picture's list.
PictureKeyTexts(keys) == [i \in 1..Len(keys) |-> PictureKey_fmt(keys[i])]

\* The Display text of each key of an Axis's or a Plot2D's list.
KeyTexts(keys) == [i \in 1..Len(keys) |-> Key_fmt(keys[i])]

\* Display of a Plot2D: envelope, optional options clause, no children.
Plot_fmt(plot) ==
    <<"\\addplot">>
    \o (IF plot.keys # <<>>
        THEN <<"[", NL>> \o KeyLines(KeyTexts(plot.keys)) \o <<"]">>
        ELSE <<>>)
    \o <<" coordinates {", NL, "};">>

\* Display of an Axis: envelope, optional options clause, one plot per line.
Axis_fmt(axis) ==
    <<"\\begin{axis}">>
    \o (IF axis.keys # <<>>
        THEN <<"[", NL>> \o KeyLines(KeyTexts(axis.keys)) \o <<"]">>
        ELSE <<>>)
    \o <<NL>>
    \o Flatten([j \in 1..Len(axis.plots) |-> Plot_fmt(axis.plots[j]) \o <<NL>>])
    \o <<"\\end{axis}">>

\* A faulty Display that writes the brackets whether or not there are keys.
Picture_fmt_always(p) ==
    <<"\\begin{tikzpicture}">>
    \o <<"[", NL>> \o KeyLines(PictureKeyTexts(p.keys)) \o <<"]">>
    \o <<NL>>
    \o Flatten([i \in 1..Len(p.axes) |-> Axis_fmt(p.axes[i]) \o <<NL>>])
    \o <<"\\end{tikzpicture}">>

\* impl Display for Picture.
Picture_fmt(p) ==
    <<"\\begin{tikzpicture}">>
    \o (IF p.keys # <<>>
        THEN <<"[", NL>> \o KeyLines(PictureKeyTexts(p.keys)) \o <<"]">>
        ELSE <<>>)
    \o <<NL>>
    \o Flatten([i \in 1..Len(p.axes) |-> Axis_fmt(p.axes[i]) \o <<NL>>])
    \o <<"\\end{tikzpicture}">>

\* A faulty assembler that forgets the line break before the closing.
standalone_string_joined(p) ==
    <<"\\documentclass{standalone}", NL, "\\usepackage{pgfplots}", NL,
      "\\begin{document}", NL>>
    \o Picture_fmt(p)
    \o <<"\\end{document}">>

\* Picture::standalone_string: the format! string around "{}".
standalone_string(p) ==
    <<"\\documentclass{standalone}", NL, "\\usepackage{pgfplots}", NL,
      "\\begin{document}", NL>>
    \o Picture_fmt(p)
    \o <<NL, "\\end{document}">>

\* The lines of a text: the token runs between newline tokens.
RECURSIVE SplitLines(_, _)
SplitLines(text, cur) ==
    IF text = <<>> THEN <<cur>>
    ELSE IF Head(text) = NL THEN <<cur>> \o SplitLines(Tail(text), <<>>)
    ELSE SplitLines(Tail(text), Append(cur, Head(text)))

Lines(text) == SplitLines(text, <<>>)

\* ------------------------------------------------------------------------
\* Builder calls on the scene graph
\* ------------------------------------------------------------------------

\* Picture::new() (Default): no keys, no axes.
Picture_new == [keys |-> <<>>, axes |-> <<>>]

\* Axis::new(): no keys, no plots.
Axis_new == [keys |-> <<>>, plots |-> <<>>]

\* Plot2D::new(): no keys.
Plot_new == [keys |-> <<>>]

\* picture.add_key(key)
PictureAddKey(key) ==
    /\ calls < MaxCalls
    /\ picture' = [picture EXCEPT !.keys = Picture_add_key(@, key)]
    /\ added' = [added EXCEPT !.keys = Append(@, key)]
    /\ calls' = calls + 1
    /\ UNCHANGED pipeVars

\* picture.axes.push(Axis::new())
PushAxis ==
    /\ calls < MaxCalls
    /\ picture' = [picture EXCEPT !.axes = Append(@, Axis_new)]
    /\ added' = [added EXCEPT !.axes = Append(@, Axis_new)]
    /\ calls' = calls + 1
    /\ UNCHANGED pipeVars

\* picture.axes[i].add_key(key)
AxisAddKey(i, key) ==
    /\ calls < MaxCalls
    /\ i \in 1..Len(picture.axes)
    /\ picture' = [picture EXCEPT !.axes[i].keys = Node_add_key(@, key)]
    /\ added' = [added EXCEPT !.axes[i].keys = Append(@, key)]
    /\ calls' = calls + 1
    /\ UNCHANGED pipeVars

\* picture.axes[i].plots.push(Plot2D::new())
PushPlot(i) ==
    /\ calls < MaxCalls
    /\ i \in 1..Len(picture.axes)
    /\ picture' = [picture EXCEPT !.axes[i].plots = Append(@, Plot_new)]
    /\ added' = [added EXCEPT !.axes[i].plots = Append(@, Plot_new)]
    /\ calls' = calls + 1
    /\ UNCHANGED pipeVars

\* picture.axes[i].plots[j].add_key(key)
PlotAddKey(i, j, key) ==
    /\ calls < MaxCalls
    /\ i \in 1..Len(picture.axes)
    /\ j \in 1..Len(picture.axes[i].plots)
    /\ picture' = [picture EXCEPT !.axes[i].plots[j].keys = Node_add_key(@, key)]
    /\ added' = [added EXCEPT !.axes[i].plots[j].keys = Append(@, key)]
    /\ calls' = calls + 1
    /\ UNCHANGED pipeVars

\* ------------------------------------------------------------------------
\* The scratch path and the results of a call
\* ------------------------------------------------------------------------

Threads == {"t1", "t2"}

\* The single caller of the sequential runs.
SeqThreads == {"t1"}

\* enum Compiler { Tectonic, Installed(Engine) }, Engine = PdfLatex.
Compilers == {"Installed", "Tectonic"}

OUT_NAME == "figure"

SourceName == OUT_NAME \o ".tex"

ArtifactName == OUT_NAME \o ".pdf"

\* enum ShowPdfError and its #[from] conversions.
From_io_Error == "IoError"

From_OpenError == "Open"

From_tectonic_Error == "Tectonic"

ErrorKinds == {From_io_Error, From_OpenError, From_tectonic_Error}

Absent == [exists |-> FALSE, files |-> {}]

EmptyDir == [exists |-> TRUE, files |-> {}]

\* A file in the scratch directory: its name, the compilation that created
\* it (0: it was there before the program ran) and its content.
File(name, by, data) == [name |-> name, by |-> by, data |-> data]

PdfBytes == <<"%PDF">>

\* Creating or truncating a file replaces the directory entry of that name.
PutFile(dir, f) ==
    [dir EXCEPT !.files = {g \in @ : g.name # f.name} \cup {f}]

HasFile(dir, name) == dir.exists /\ \E f \in dir.files : f.name = name

Event(step, ev) == [step |-> step, ev |-> ev]

Began(p, step) == \E i \in 1..Len(log[p]) : log[p][i] = Event(step, "begin")

Ended(p, step) == \E i \in 1..Len(log[p]) : log[p][i] = Event(step, "end")

Failed(p, step) == \E i \in 1..Len(log[p]) : log[p][i] = Event(step, "fail")

\* The name of the file a strategy writes itself: the source for Installed,
\* the artifact for Tectonic.
WrittenName(s) == IF s = "Installed" THEN SourceName ELSE ArtifactName

\* What a strategy writes into that file.
WrittenData(s) == IF s = "Installed" THEN standalone_string(picture) ELSE PdfBytes

\* ------------------------------------------------------------------------
\* temp_output_dir, compile_figure_with and the error path
\* ------------------------------------------------------------------------

\* A faulty preparation that reuses a directory that is already there.
AfterExists_reuse(dir) == IF dir.exists THEN "create_file" ELSE "create_dir"

\* temp_output_dir: if path.exists() { remove_dir_all } and then create_dir.
AfterExists(dir) == IF dir.exists THEN "remove" ELSE "create_dir"

\* A faulty removal that spares the files of the other compilations.
remove_dir_all_own(dir, r) == [dir EXCEPT !.files = {f \in @ : f.by # r}]

\* std::fs::remove_dir_all(&path) returning Ok, called by compilation r: the
\* directory and everything in it are gone, whoever wrote it.
remove_dir_all(dir, r) == Absent

\* A faulty compile_figure_with that drops the io::Result of status().
compile_figure_with_swallow(o) == "Ok"

\* A compile_figure_with that turns a non-zero exit status into a failure.
compile_figure_with_checked(o) ==
    IF o.started /\ o.code = "status 0" THEN "Ok" ELSE From_io_Error

\* compile_figure_with: Command::new(engine)...status()?; Ok(()). The `?`
\* returns the io::Error of a process that could not be started; the
\* ExitStatus of one that ran is dropped.
compile_figure_with(o) == IF o.started THEN "Ok" ELSE From_io_Error

\* A faulty show_with that opens the artifact right after writing the source.
AfterWrite_skip(s) == "open"

\* After write_all: show_with(Installed) compiles, show opens the artifact.
AfterWrite(s) == IF s = "Installed" THEN "spawn" ELSE "open"

\* A faulty error path that removes the scratch directory before returning.
AfterFailure_cleanup(dir) == Absent

\* The `?` operator returns the error at once; the scratch path is left as
\* the failed step left it.
AfterFailure(dir) == dir

\* The step a position belongs to.
StepOf(pos) ==
    IF pos \in {"exists", "remove", "create_dir"} THEN "prepare"
    ELSE IF pos \in {"create_file", "write_all"} THEN "write"
    ELSE IF pos \in {"tectonic", "spawn", "wait"} THEN "compile"
    ELSE "open"

\* The history when a step ends and the step at position `to` begins.
Advance(lg, step, to) ==
    lg \o <<Event(step, "end"), Event(StepOf(to), "begin")>>

\* A step returned Err: the call returns `kind`, leaving the scratch path as
\* `dirAfter`, the state the failed step left it in.
Fail(p, kind, step, dirAfter, code) ==
    /\ fs' = AfterFailure(dirAfter)
    /\ atFail' = [atFail EXCEPT ![p] = dirAfter]
    /\ pc' = [pc EXCEPT ![p] = "done"]
    /\ result' = [result EXCEPT ![p] = kind]
    /\ log' = [log EXCEPT ![p] = Append(@, Event(step, "fail"))]
    /\ exit' = [exit EXCEPT ![p] = code]
    /\ UNCHANGED <<strategy, run, runs, before, sceneVars>>

\* A step returned Ok and the call moves on to position `to`.
Goto(p, to, lg, dirAfter, code) ==
    /\ fs' = dirAfter
    /\ pc' = [pc EXCEPT ![p] = to]
    /\ log' = [log EXCEPT ![p] = lg]
    /\ exit' = [exit EXCEPT ![p] = code]
    /\ UNCHANGED <<strategy, run, runs, result, atFail, before, sceneVars>>

\* ------------------------------------------------------------------------
\* show_with and show, one action per blocking call
\* ------------------------------------------------------------------------

\* picture.show_with(&builder), or picture.show() for Compiler::Tectonic.
Call(p, s) ==
    /\ pc[p] \in {"idle", "done"}
    /\ runs < MaxRuns
    /\ runs' = runs + 1
    /\ run' = [run EXCEPT ![p] = runs + 1]
    /\ strategy' = [strategy EXCEPT ![p] = s]
    /\ pc' = [pc EXCEPT ![p] = IF s = "Tectonic" THEN "tectonic" ELSE "exists"]
    /\ log' = [log EXCEPT ![p] =
                  <<Event(IF s = "Tectonic" THEN "compile" ELSE "prepare", "begin")>>]
    /\ result' = [result EXCEPT ![p] = "none"]
    /\ exit' = [exit EXCEPT ![p] = "none"]
    /\ atFail' = [atFail EXCEPT ![p] = "none"]
    /\ before' = [before EXCEPT ![p] = fs]
    /\ UNCHANGED <<fs, sceneVars>>

\* tectonic::latex_to_pdf(self.standalone_string())?
Tectonic(p) ==
    /\ pc[p] = "tectonic"
    /\ \/ Goto(p, "exists", Advance(log[p], "compile", "exists"), fs, exit[p])
       \/ Fail(p, From_tectonic_Error, "compile", fs, exit[p])

\* temp_output_dir: path.exists()
Exists(p) ==
    /\ pc[p] = "exists"
    /\ LET to == AfterExists(fs) IN
         Goto(p, to,
              IF StepOf(to) = "prepare" THEN log[p] ELSE Advance(log[p], "prepare", to),
              fs, exit[p])

\* temp_output_dir: std::fs::remove_dir_all(&path)?
RemoveDirAll(p) ==
    /\ pc[p] = "remove"
    /\ \/ /\ fs.exists
          /\ Goto(p, "create_dir", log[p], remove_dir_all(fs, run[p]), exit[p])
       \/ \E keep \in SUBSET fs.files :
             Fail(p, From_io_Error, "prepare", [fs EXCEPT !.files = keep], exit[p])

\* temp_output_dir: std::fs::create_dir(&path)?
CreateDir(p) ==
    /\ pc[p] = "create_dir"
    /\ \/ /\ ~fs.exists
          /\ Goto(p, "create_file", Advance(log[p], "prepare", "create_file"),
                  EmptyDir, exit[p])
       \/ Fail(p, From_io_Error, "prepare", fs, exit[p])

\* std::fs::File::create(&path)?
CreateFile(p) ==
    /\ pc[p] = "create_file"
    /\ \/ /\ fs.exists
          /\ Goto(p, "write_all", log[p],
                  PutFile(fs, File(WrittenName(strategy[p]), run[p], <<>>)), exit[p])
       \/ Fail(p, From_io_Error, "write", fs, exit[p])

\* file.write_all(..)?: the bytes go to the file this call created, which is
\* in the directory only while no one has removed or replaced it.
WriteAll(p) ==
    /\ pc[p] = "write_all"
    /\ LET name == WrittenName(strategy[p])
           mine == File(name, run[p], <<>>)
           to == AfterWrite(strategy[p])
       IN \/ Goto(p, to, Advance(log[p], "write", to),
                  IF fs.exists /\ mine \in fs.files
                  THEN PutFile(fs, File(name, run[p], WrittenData(strategy[p])))
                  ELSE fs,
                  exit[p])
          \/ Fail(p, From_io_Error, "write", fs, exit[p])

\* compile_figure_with: Command::status() starts the engine in out_dir, or
\* fails to (no such executable, no such directory).
Spawn(p) ==
    /\ pc[p] = "spawn"
    /\ \/ /\ fs.exists
          /\ Goto(p, "wait", log[p], fs, exit[p])
       \/ LET r == compile_figure_with([started |-> FALSE, code |-> "none"]) IN
            IF r = "Ok"
            THEN Goto(p, "open", Advance(log[p], "compile", "open"), fs, "nolaunch")
            ELSE Fail(p, r, "compile", fs, "nolaunch")

\* The ExitStatus values a finished engine reports: success() or not.
ExitStatuses == {"status 0", "status 1"}

\* compile_figure_with: Command::status() waits for the engine, which has
\* written the artifact or not and exits with some status.
Wait(p) ==
    /\ pc[p] = "wait"
    /\ \E code \in ExitStatuses, pdf \in BOOLEAN :
         /\ pdf => HasFile(fs, SourceName)
         /\ LET dir == IF pdf THEN PutFile(fs, File(ArtifactName, run[p], PdfBytes))
                       ELSE fs
                r == compile_figure_with([started |-> TRUE, code |-> code])
            IN IF r = "Ok"
               THEN Goto(p, "open", Advance(log[p], "compile", "open"), dir, code)
               ELSE Fail(p, r, "compile", dir, code)

\* opener::open(path)?; Ok(())
Open(p) ==
    /\ pc[p] = "open"
    /\ \/ /\ HasFile(fs, ArtifactName)
          /\ fs' = fs
          /\ pc' = [pc EXCEPT ![p] = "done"]
          /\ result' = [result EXCEPT ![p] = "Ok"]
          /\ log' = [log EXCEPT ![p] = Append(@, Event("open", "end"))]
          /\ UNCHANGED <<strategy, run, runs, exit, atFail, before, sceneVars>>
       \/ Fail(p, From_OpenError, "open", fs, exit[p])

\* ------------------------------------------------------------------------
\* Specifications
\* ------------------------------------------------------------------------

PipeIdle ==
    /\ pc = [p \in Threads |-> "idle"]
    /\ strategy = [p \in Threads |-> "none"]
    /\ run = [p \in Threads |-> 0]
    /\ runs = 0
    /\ result = [p \in Threads |-> "none"]
    /\ log = [p \in Threads |-> <<>>]
    /\ exit = [p \in Threads |-> "none"]
    /\ atFail = [p \in Threads |-> "none"]
    /\ before = [p \in Threads |-> Absent]

\* A program that builds one picture: Picture::new(), nothing compiled.
Init ==
    /\ picture = Picture_new
    /\ added = Picture_new
    /\ calls = 0
    /\ fs = Absent
    /\ PipeIdle

Next ==
    \/ \E key \in PictureKeys : PictureAddKey(key)
    \/ PushAxis
    \/ \E i \in 1..MaxCalls, key \in AxisKeys : AxisAddKey(i, key)
    \/ \E i \in 1..MaxCalls : PushPlot(i)
    \/ \E i \in 1..MaxCalls, j \in 1..MaxCalls, key \in PlotKeys : PlotAddKey(i, j, key)

Spec == Init /\ [][Next]_vars

\* A program that shows a finished picture; the scratch path may be absent,
\* or be there already, empty or holding an older artifact.
PipeInit ==
    /\ picture = [keys |-> <<Custom("baseline")>>, axes |-> <<>>]
    /\ added = picture
    /\ calls = Len(picture.keys)
    /\ fs \in {Absent, EmptyDir, PutFile(EmptyDir, File(ArtifactName, 0, PdfBytes))}
    /\ PipeIdle

Step(p) ==
    \/ \E s \in Compilers : Call(p, s)
    \/ Tectonic(p)
    \/ Exists(p)
    \/ RemoveDirAll(p)
    \/ CreateDir(p)
    \/ CreateFile(p)
    \/ WriteAll(p)
    \/ Spawn(p)
    \/ Wait(p)
    \/ Open(p)

\* Compilations issued one after the other by one thread.
SeqNext == \E p \in SeqThreads : Step(p)

SeqSpec == PipeInit /\ [][SeqNext]_vars

\* Compilations issued by two threads with no synchronisation.
ConcNext == \E p \in Threads : Step(p)

ConcSpec == PipeInit /\ [][ConcNext]_vars

\* ------------------------------------------------------------------------
\* Properties of the key lists and of the rendering (under Spec)
\* ------------------------------------------------------------------------

\* Every node of the picture as <<its key list, the keys added to it>>.
NodeKeyLists ==
    {<<picture.keys, added.keys>>}
    \cup {<<picture.axes[i].keys, added.axes[i].keys>> : i \in 1..Len(picture.axes)}
    \cup UNION {{<<picture.axes[i].plots[j].keys, added.axes[i].plots[j].keys>> :
                    j \in 1..Len(picture.axes[i].plots)} : i \in 1..Len(picture.axes)}

TypedKinds == {k.kind : k \in AxisKeys \cup PlotKeys \cup PictureKeys} \ {"Custom"}

IndicesOfKind(keys, d) == {i \in 1..Len(keys) : keys[i].kind = d}

Max(S) == CHOOSE m \in S : \A n \in S : n <= m

\* C1: on every node and for every non-Custom discriminant, the key list
\* holds at most one key of that discriminant, and once a key of that
\* discriminant has been added it holds exactly the one added last.
C1_OnePerDiscriminant ==
    \A node \in NodeKeyLists : \A d \in TypedKinds :
        LET held == IndicesOfKind(node[1], d)
            past == IndicesOfKind(node[2], d)
        IN /\ Cardinality(held) <= 1
           /\ past # {} =>
                /\ held # {}
                /\ \A i \in held : node[1][i] = node[2][Max(past)]

\* A node that was given two different keys of one typed discriminant, with
\* a fallback key in between, and holds only the second.
C1_Witness ==
    \E node \in NodeKeyLists : \E d \in TypedKinds :
        /\ Cardinality(IndicesOfKind(node[2], d)) >= 2
        /\ Len(node[1]) = 2
        /\ node[1][1].kind = "Custom"
        /\ node[1][2].kind = d
        /\ node[2][1] # node[1][2]

\* The nodes by position: <<0, 0>> the picture, <<i, 0>> its i-th axis,
\* <<i, j>> the j-th plot of its i-th axis.
NodeIds(pic) ==
    {<<0, 0>>}
    \cup {<<i, 0>> : i \in 1..Len(pic.axes)}
    \cup UNION {{<<i, j>> : j \in 1..Len(pic.axes[i].plots)} : i \in 1..Len(pic.axes)}

KeysAt(pic, id) ==
    IF id[1] = 0 THEN pic.keys
    ELSE IF id[2] = 0 THEN pic.axes[id[1]].keys
    ELSE pic.axes[id[1]].plots[id[2]].keys

\* C2: an add_key call with a Custom key appends that key to the node's key
\* list and leaves every key already there in place, equal texts included;
\* so n such calls leave n more entries, at the end and in call order.
C2_CustomAppends ==
    [][\A id \in NodeIds(picture) \cap NodeIds(picture') :
          \A key \in PictureKeys \cup AxisKeys \cup PlotKeys :
             (key.kind = "Custom" /\ KeysAt(added', id) = Append(KeysAt(added, id), key))
                => KeysAt(picture', id) = Append(KeysAt(picture, id), key)]_vars

\* A picture holding the same Custom key twice, and another one after them.
C2_Witness ==
    /\ Len(picture.keys) = 3
    /\ picture.keys[1] = picture.keys[2]
    /\ picture.keys[3] # picture.keys[2]
    /\ picture.keys = added.keys

FirstIndex(text, tok) ==
    CHOOSE i \in 1..Len(text) : text[i] = tok /\ \A j \in 1..(i - 1) : text[j] # tok

\* What the options clause of a node with these keys has to look like in
\* the node's text: nothing after the opening tag when there are no keys,
\* else "[", one line "\t<key>," per key in list order, and "]".
ClauseMatches(text, keys) ==
    IF keys = <<>>
    THEN text[2] # "["
    ELSE /\ text[2] = "["
         /\ \E close \in 3..Len(text) :
              /\ close = FirstIndex(text, "]")
              /\ Lines(SubSeq(text, 3, close - 1))
                   = <<<<>>>> \o [i \in 1..Len(keys) |-> <<TAB, keys[i].text, ",">>]
                       \o <<<<>>>>

\* C3: a node with no keys is rendered without a bracketed clause; a node
\* with keys is rendered with one that holds every key of the list once, one
\* per line, comma-terminated, in list order.
C3_OptionsClause ==
    /\ ClauseMatches(Picture_fmt(picture), picture.keys)
    /\ \A i \in 1..Len(picture.axes) :
         /\ ClauseMatches(Axis_fmt(picture.axes[i]), picture.axes[i].keys)
         /\ \A j \in 1..Len(picture.axes[i].plots) :
              ClauseMatches(Plot_fmt(picture.axes[i].plots[j]),
                            picture.axes[i].plots[j].keys)

\* A picture with two different keys and an axis that has a key of its own.
C3_Witness ==
    /\ Len(picture.keys) = 2
    /\ picture.keys[1] # picture.keys[2]
    /\ Len(picture.axes) = 1
    /\ picture.axes[1].keys # <<>>

Preamble ==
    <<<<"\\documentclass{standalone}">>, <<"\\usepackage{pgfplots}">>,
      <<"\\begin{document}">>>>

Closing == <<<<"\\end{document}">>>>

\* The document of the standalone_string doc test.
DocTest ==
    <<<<"\\documentclass{standalone}">>, <<"\\usepackage{pgfplots}">>,
      <<"\\begin{document}">>, <<"\\begin{tikzpicture}">>, <<"\\end{tikzpicture}">>,
      <<"\\end{document}">>>>

\* C4: the lines of standalone_string() are the three preamble lines, the
\* lines of the picture's rendering and the closing line; for the empty
\* picture they are the six lines of the doc test.
C4_Standalone ==
    LET doc == Lines(standalone_string(picture)) IN
    /\ doc = Preamble \o Lines(Picture_fmt(picture)) \o Closing
    /\ picture = Picture_new => doc = DocTest

\* A picture with a key and an axis, whose document has more than six lines.
C4_Witness ==
    /\ picture.keys # <<>>
    /\ picture.axes # <<>>
    /\ Len(Lines(standalone_string(picture))) > 6

\* ------------------------------------------------------------------------
\* Properties of the compilation pipeline (under SeqSpec and ConcSpec)
\* ------------------------------------------------------------------------

External(p) == strategy[p] = "Installed"

\* The engine of the call could not be started.
LaunchFailed(p) == External(p) /\ exit[p] = "nolaunch"

\* C5 as stated: a failed launch makes show_with return a failure of a kind
\* other than the I/O kind, never Ok, and the reveal step is not reached.
C5_LaunchFailureIsDistinct ==
    \A p \in Threads :
        (LaunchFailed(p) /\ pc[p] = "done") =>
            /\ result[p] \in ErrorKinds \ {From_io_Error}
            /\ ~Began(p, "open")

\* C5 amended: a failed launch makes show_with return at once with the I/O
\* failure kind, the kind filesystem failures have; it never returns Ok and
\* the reveal step is not reached.
C5_LaunchFailureIsIoError ==
    \A p \in Threads :
        LaunchFailed(p) =>
            /\ pc[p] = "done"
            /\ result[p] = From_io_Error
            /\ ~Began(p, "open")

\* A call that prepared the directory and wrote the source, and whose
\* engine could not be started.
C5_Witness ==
    \E p \in Threads :
        LaunchFailed(p) /\ Ended(p, "write") /\ HasFile(fs, SourceName)

\* C6 as stated: show_with(Installed) returns Ok only if the engine exited
\* with status zero.
C6_OkOnlyOnExitZero ==
    \A p \in Threads : (External(p) /\ result[p] = "Ok") => exit[p] = "status 0"

\* C6 amended: the exit status is not consulted. An engine that ran and
\* exited, with whatever status, ends the compile step without failure, and
\* show_with returns Ok exactly when preparation, source write, the engine
\* run and the opening of the artifact have all ended without failure.
C6_OkWhateverExitStatus ==
    \A p \in Threads :
        External(p) =>
            /\ exit[p] \in ExitStatuses => (Ended(p, "compile") /\ ~Failed(p, "compile"))
            /\ result[p] = "Ok" <=>
                 \A step \in {"prepare", "write", "compile", "open"} : Ended(p, step)

\* A call that returned Ok although its engine exited with status 1.
C6_Witness ==
    \E p \in Threads : External(p) /\ result[p] = "Ok" /\ exit[p] = "status 1"

ExternalOrder == <<"prepare", "write", "compile", "open">>

\* In history lg, a step begins only once, only after every step before it
\* in `order` has ended, and ends or fails only after it began.
InOrder(lg, order) ==
    \A i \in 1..Len(lg) :
        /\ \E k \in 1..Len(order) : order[k] = lg[i].step
        /\ \A i2 \in 1..(i - 1) : lg[i2] # lg[i]
        /\ lg[i].ev = "begin" =>
             \A k \in 1..Len(order) : \A k2 \in 1..(k - 1) :
                order[k] = lg[i].step =>
                    \E i2 \in 1..(i - 1) : lg[i2] = Event(order[k2], "end")
        /\ lg[i].ev # "begin" =>
             \E i2 \in 1..(i - 1) : lg[i2] = Event(lg[i].step, "begin")

\* C7: in every call of the external-process strategy the steps run in the
\* order preparation, source write, engine run, opening of the artifact,
\* and a step begins only after the one before it has ended.
C7_StepsInOrder ==
    \A p \in Threads : External(p) => InOrder(log[p], ExternalOrder)

\* A call of the external strategy that went through all four steps.
C7_Witness ==
    \E p \in Threads :
        External(p) /\ \A k \in 1..Len(ExternalOrder) : Ended(p, ExternalOrder[k])

\* C8: in compilations run one after the other, whatever the earlier ones
\* returned, a preparation that has returned Ok leaves the scratch directory
\* there and empty, and from then on, when the compilation creates and
\* writes its file and after, the directory holds no file of an earlier one.
C8_FreshScratch ==
    \A p \in Threads :
        /\ pc[p] = "create_file" => fs = EmptyDir
        /\ Ended(p, "prepare") =>
             /\ fs.exists
             /\ \A f \in fs.files : f.by = run[p]

\* A second compilation that found the first one's source and artifact and
\* is about to create its file in the emptied directory.
C8_Witness ==
    \E p \in Threads :
        /\ pc[p] = "create_file"
        /\ run[p] = 2
        /\ \E f \in before[p].files : f.by = 1 /\ f.name = SourceName
        /\ \E f \in before[p].files : f.by = 1 /\ f.name = ArtifactName

\* C9: the preparation of a compilation removes the scratch directory with
\* everything in it, whichever compilation wrote it and however far that
\* one has got; so a concurrent compilation can lose its output before its
\* reveal step.
C9_PreparationClearsAll ==
    [][\A q \in Threads :
          (pc[q] = "remove" /\ pc'[q] = "create_dir") => ~fs'.exists]_vars

\* Compilation p had written its source when q's call began and has not got
\* to the end of its reveal step; q's preparation has ended and the
\* directory holds nothing of p any more.
C9_Witness ==
    \E p \in Threads, q \in Threads :
        /\ p # q
        /\ External(p)
        /\ pc[p] \in {"spawn", "wait", "open"}
        /\ \E f \in before[q].files :
              f = File(SourceName, run[p], standalone_string(picture))
        /\ Ended(q, "prepare")
        /\ fs.exists
        /\ \A f \in fs.files : f.by # run[p]

\* The failure kind a failed step is returned as.
KindOf(s, step) ==
    IF step = "open" THEN From_OpenError
    ELSE IF step = "compile" /\ s = "Tectonic" THEN From_tectonic_Error
    ELSE From_io_Error

\* C10: in both strategies a call returns Ok only after all its steps
\* through the opening of the artifact have ended; a failed step ends the
\* call with that failure, no step is begun after it, none is begun twice,
\* and the scratch path stays as the failed step left it.
C10_FirstFailureEndsCall ==
    \A p \in Threads :
        /\ result[p] = "Ok" =>
             \A step \in {"prepare", "write", "compile", "open"} : Ended(p, step)
        /\ \A i \in 1..Len(log[p]) : \A j \in 1..Len(log[p]) :
             (i # j /\ log[p][i].ev = "begin") => log[p][i] # log[p][j]
        /\ \A i \in 1..Len(log[p]) :
             log[p][i].ev = "fail" =>
                /\ i = Len(log[p])
                /\ pc[p] = "done"
                /\ result[p] = KindOf(strategy[p], log[p][i].step)
                /\ fs = atFail[p]
        /\ result[p] \in ErrorKinds =>
             (log[p] # <<>> /\ log[p][Len(log[p])].ev = "fail")

\* A call whose write_all failed: it returned the I/O failure and the
\* directory it prepared, with the empty file it created, is still there.
C10_Witness ==
    \E p \in Threads :
        /\ result[p] = From_io_Error
        /\ Failed(p, "write")
        /\ \E f \in fs.files : f.by = run[p] /\ f.data = <<>>

====
